---- MODULE Spec2Model ----
(***************************************************************************)
(* wslcd: resolution of a Windows drive path ("C:\Foo\Bar", "c:FooBar") to *)
(* an existing directory under /mnt/<drive>, by case-insensitive matching  *)
(* of directory entries (src/cmd/wslcd/main.go).                           *)
(*                                                                         *)
(* Strings are sequences of bytes (ASCII codes); a file system is a        *)
(* function from full path strings to the kind of the entry found there.   *)
(***************************************************************************)
EXTENDS Naturals, Sequences, FiniteSets, TLC

(* ------------------------------------------------------------------ *)
(* Characters and strings                                             *)
(* ------------------------------------------------------------------ *)

\* '/', '\\', ':' and '.' as the source writes them
Slash == 47
Backslash == 92
Colon == 58
Dot == 46

\* unicode.IsLetter and unicode.ToLower on the ASCII range
IsLetter(c) == c \in 65..90 \/ c \in 97..122
ToLower(c) == IF c \in 65..90 THEN c + 32 ELSE c

StrToLower(s) == [i \in 1..Len(s) |-> ToLower(s[i])]

\* strings.EqualFold on ASCII strings
EqualFold(s, t) ==
    /\ Len(s) = Len(t)
    /\ \A i \in 1..Len(s) : ToLower(s[i]) = ToLower(t[i])

\* Go's < on strings: byte-wise lexicographic
RECURSIVE StrLess(_, _)
StrLess(s, t) ==
    IF t = <<>> THEN FALSE
    ELSE IF s = <<>> THEN TRUE
    ELSE IF Head(s) # Head(t) THEN Head(s) < Head(t)
    ELSE StrLess(Tail(s), Tail(t))

IsSep(c) == c = Slash \/ c = Backslash

\* strings.TrimLeft(s, "\\/")
RECURSIVE TrimLeftSep(_)
TrimLeftSep(s) ==
    IF s # <<>> /\ IsSep(Head(s)) THEN TrimLeftSep(Tail(s)) ELSE s

\* s[k:] with k a 0-based byte offset
Drop(s, k) == SubSeq(s, k + 1, Len(s))
\* s[:k]
Take(s, k) == SubSeq(s, 1, k)

\* filepath.Join(dir, name) for a clean dir and a plain entry name
Join(dir, name) == dir \o <<Slash>> \o name

\* the mount parent "/mnt"
MntDir == <<47, 109, 110, 116>>

(* ------------------------------------------------------------------ *)
(* caseScore                                                          *)
(* ------------------------------------------------------------------ *)

\* caseScore, were the positions past the end of the input counted as matches
CaseScoreCountsAllPositions(input, candidate) ==
    Cardinality({i \in 1..Len(candidate) :
                    i > Len(input) \/ input[i] = candidate[i]})

\* caseScore, were the characters compared without regard to case
CaseScoreFoldsCase(input, candidate) ==
    LET n == IF Len(candidate) < Len(input) THEN Len(candidate) ELSE Len(input)
    IN  Cardinality({i \in 1..n : ToLower(input[i]) = ToLower(candidate[i])})

caseScore(input, candidate) ==
    LET n == IF Len(candidate) < Len(input) THEN Len(candidate) ELSE Len(input)
    IN  Cardinality({i \in 1..n : input[i] = candidate[i]})

(* ------------------------------------------------------------------ *)
(* State                                                              *)
(* ------------------------------------------------------------------ *)

VARIABLES
    fs,      \* the file system: full path |-> kind of the entry (never changed)
    win,     \* the argument, a drive path
    pc,      \* position in resolveWindowsPath / resolveWindowsPathCollapsed
    segs,    \* resolveWindowsPath: the normalised segments
    curr,    \* root (resolveWindowsPath) or curr (resolveWindowsPathCollapsed)
    tail,    \* resolveWindowsPathCollapsed: the unconsumed tail
    cands,   \* resolveWindowsPath: what exploreCandidates returned
    result,  \* the returned path (<<>> when an error is returned)
    err,     \* the returned error ("" when none)
    calls,   \* the functions entered so far
    scored   \* caseScore alone: its two arguments and, once called, its result

vars == <<fs, win, pc, segs, curr, tail, cands, result, err, calls, scored>>

(* ------------------------------------------------------------------ *)
(* The file system as os.Stat and os.ReadDir see it                   *)
(* ------------------------------------------------------------------ *)

\* Kinds of entry:
\*   "dir"      a directory, readable and searchable
\*   "noread"   a directory that cannot be listed (no r permission)
\*   "nosearch" a directory that can be listed but not traversed (no x)
\*   "file"     something that is not a directory
\*   "link"     a symbolic link to a readable, searchable directory
\*   "broken"   a symbolic link whose target does not exist
Kinds == {"dir", "noread", "nosearch", "file", "link", "broken"}

\* the path without its last component
Parent(p) ==
    LET i == CHOOSE k \in 1..Len(p) :
                 p[k] = Slash /\ \A j \in (k + 1)..Len(p) : p[j] # Slash
    IN  Take(p, i - 1)

\* path resolution reaches p: every directory above it can be traversed
RECURSIVE Traversable(_)
Traversable(p) ==
    IF p = MntDir THEN TRUE
    ELSE LET d == Parent(p)
         IN  /\ d \in DOMAIN fs
             /\ fs[d] \in {"dir", "noread", "link"}
             /\ Traversable(d)

\* os.Stat(p): follows symbolic links
Stat(p) ==
    IF p \notin DOMAIN fs \/ ~Traversable(p) \/ fs[p] = "broken"
    THEN [err |-> TRUE, isDir |-> FALSE]
    ELSE [err |-> FALSE, isDir |-> fs[p] # "file"]

\* fs.DirEntry.IsDir(): the type of the entry itself, links not followed
DirEntryIsDir(full) == fs[full] \in {"dir", "noread", "nosearch"}

\* os.ReadDir(p): the entry names, in the order ord lists names
ReadDir(ord, p) ==
    IF Stat(p).err \/ ~Stat(p).isDir \/ fs[p] = "noread"
    THEN [err |-> TRUE, ents |-> <<>>]
    ELSE [err |-> FALSE,
          ents |-> SelectSeq(ord, LAMBDA n : Join(p, n) \in DOMAIN fs)]

\* info, err := os.Stat(p), then the two checks made of it: the error
\* returned, "" when p is a directory
\* statDir, were the result of os.Stat not looked at
statDirUnchecked(p) == ""

statDir(p) ==
    IF Stat(p).err THEN "stat"
    ELSE IF ~Stat(p).isDir THEN "not a directory"
    ELSE ""

isDirFollowSymlink(full) ==
    IF DirEntryIsDir(full) THEN [isDir |-> TRUE, err |-> FALSE]
    ELSE [isDir |-> Stat(full).isDir, err |-> Stat(full).err]

(* ------------------------------------------------------------------ *)
(* sort.SliceStable                                                   *)
(* ------------------------------------------------------------------ *)

\* The stable sort of s under the strict weak order Less: element i goes
\* after every element less than it and after the earlier elements that
\* are equivalent to it.
SliceStable(s, Less(_, _)) ==
    LET pos(i) ==
            1 + Cardinality({j \in 1..Len(s) : Less(s[j], s[i])})
              + Cardinality({j \in 1..(i - 1) :
                                ~Less(s[j], s[i]) /\ ~Less(s[i], s[j])})
    IN  [k \in 1..Len(s) |-> s[CHOOSE i \in 1..Len(s) : pos(i) = k]]

(* ------------------------------------------------------------------ *)
(* pickCaseInsensitiveEntry                                           *)
(* ------------------------------------------------------------------ *)

PairLess(a, b) ==
    IF a.score # b.score THEN a.score > b.score
    ELSE StrLess(a.name, b.name)

pickCaseInsensitiveEntry(ord, dir, want) ==
    LET rd == ReadDir(ord, dir)
        wantLower == StrToLower(want)
        hits == SelectSeq(rd.ents, LAMBDA n : EqualFold(n, want))
        matches == [i \in 1..Len(hits) |->
                       [name |-> hits[i], score |-> caseScore(want, hits[i])]]
        candidate == Join(dir, wantLower)
    IN  IF rd.err THEN [name |-> <<>>, err |-> TRUE]
        ELSE IF Len(matches) = 0
        THEN IF ~Stat(candidate).err /\ Stat(candidate).isDir
             THEN [name |-> wantLower, err |-> FALSE]
             ELSE [name |-> <<>>, err |-> TRUE]
        ELSE [name |-> SliceStable(matches, PairLess)[1].name, err |-> FALSE]

(* ------------------------------------------------------------------ *)
(* exploreCandidates                                                  *)
(* ------------------------------------------------------------------ *)

\* dfsMatches, were the names compared with == instead of strings.EqualFold
dfsMatchesExactCase(dir, seg, ents) ==
    LET kept == SelectSeq(ents, LAMBDA n :
                    /\ n = seg
                    /\ ~isDirFollowSymlink(Join(dir, n)).err
                    /\ isDirFollowSymlink(Join(dir, n)).isDir)
    IN  [i \in 1..Len(kept) |->
            [name |-> kept[i],
             score |-> caseScore(seg, kept[i]),
             path |-> Join(dir, kept[i])]]

\* the entries of listing ents (of directory dir) kept for segment seg
dfsMatches(dir, seg, ents) ==
    LET kept == SelectSeq(ents, LAMBDA n :
                    /\ EqualFold(n, seg)
                    /\ ~isDirFollowSymlink(Join(dir, n)).err
                    /\ isDirFollowSymlink(Join(dir, n)).isDir)
    IN  [i \in 1..Len(kept) |->
            [name |-> kept[i],
             score |-> caseScore(seg, kept[i]),
             path |-> Join(dir, kept[i])]]

\* dfsReadDirFailed, were the error of os.ReadDir returned
dfsReadDirFailedAborts(results) == [results |-> results, err |-> TRUE]

\* what dfs does when os.ReadDir fails
dfsReadDirFailed(results) == [results |-> results, err |-> FALSE]

\* dfs(st) with results the candidates appended so far; idx counts from 0
RECURSIVE dfs(_, _, _, _)
RECURSIVE dfsEach(_, _, _, _, _, _)
dfs(ord, sgs, st, results) ==
    IF st.idx >= Len(sgs)
    THEN IF ~Stat(st.dir).err /\ Stat(st.dir).isDir
         THEN [results |-> Append(results,
                              [fullPath |-> st.dir, score |-> st.score]),
               err |-> FALSE]
         ELSE [results |-> results, err |-> FALSE]
    ELSE LET rd == ReadDir(ord, st.dir)
         IN  IF rd.err THEN dfsReadDirFailed(results)
             ELSE dfsEach(ord, sgs, st,
                          dfsMatches(st.dir, sgs[st.idx + 1], rd.ents),
                          1, results)

\* the loop "for _, m := range ms", from its k-th element on
dfsEach(ord, sgs, st, ms, k, results) ==
    IF k > Len(ms) THEN [results |-> results, err |-> FALSE]
    ELSE LET r == dfs(ord, sgs,
                      [dir |-> ms[k].path, idx |-> st.idx + 1,
                       score |-> st.score + ms[k].score],
                      results)
         IN  IF r.err THEN r
             ELSE dfsEach(ord, sgs, st, ms, k + 1, r.results)

\* exploreCandidates, were the root not appended for an empty segment list
exploreCandidatesForgetsRoot(ord, root, sgs) ==
    IF Len(sgs) = 0
    THEN [results |-> <<>>, err |-> FALSE]
    ELSE LET r == dfs(ord, sgs, [dir |-> root, idx |-> 0, score |-> 0], <<>>)
         IN  IF r.err THEN [results |-> <<>>, err |-> TRUE] ELSE r

exploreCandidates(ord, root, sgs) ==
    IF Len(sgs) = 0
    THEN IF ~Stat(root).err /\ Stat(root).isDir
         THEN [results |-> <<[fullPath |-> root, score |-> 0]>>, err |-> FALSE]
         ELSE [results |-> <<>>, err |-> FALSE]
    ELSE LET r == dfs(ord, sgs, [dir |-> root, idx |-> 0, score |-> 0], <<>>)
         IN  IF r.err THEN [results |-> <<>>, err |-> TRUE] ELSE r

(* ------------------------------------------------------------------ *)
(* resolveWindowsPath: the segments of the argument                   *)
(* ------------------------------------------------------------------ *)

\* strings.ReplaceAll(s, "\\", "/")
ReplaceBackslash(s) ==
    [i \in 1..Len(s) |-> IF s[i] = Backslash THEN Slash ELSE s[i]]

\* strings.Split(s, "/"), cur being the piece under construction
RECURSIVE SplitSlash(_, _)
SplitSlash(s, cur) ==
    IF s = <<>> THEN <<cur>>
    ELSE IF Head(s) = Slash THEN <<cur>> \o SplitSlash(Tail(s), <<>>)
    ELSE SplitSlash(Tail(s), Append(cur, Head(s)))

\* the loop over the pieces: "", "." dropped, ".." pops, the rest appended
RECURSIVE NormalizeFrom(_, _)
NormalizeFrom(pieces, sgs) ==
    IF pieces = <<>> THEN sgs
    ELSE LET s == Head(pieces)
             next == IF s = <<>> \/ s = <<Dot>> THEN sgs
                     ELSE IF s = <<Dot, Dot>>
                     THEN IF Len(sgs) > 0 THEN Take(sgs, Len(sgs) - 1) ELSE sgs
                     ELSE Append(sgs, s)
         IN  NormalizeFrom(Tail(pieces), next)

Segments(w) == NormalizeFrom(SplitSlash(ReplaceBackslash(Drop(w, 2)), <<>>), <<>>)

\* CandLess without the comparison of the paths
CandLessByScoreOnly(a, b) == a.score > b.score

\* CandLess with the comparison of the paths reversed
CandLessPathDescending(a, b) ==
    IF a.score # b.score THEN a.score > b.score
    ELSE StrLess(b.fullPath, a.fullPath)

\* the less function of the sort of the candidates
CandLess(a, b) ==
    IF a.score # b.score THEN a.score > b.score
    ELSE StrLess(a.fullPath, b.fullPath)

isWindowsPath(p) ==
    /\ Len(p) >= 3
    /\ IsLetter(p[1])
    /\ p[2] = Colon
    /\ IsSep(p[3])

looksLikeWindowsDriveNoSlash(p) ==
    /\ Len(p) >= 3
    /\ IsLetter(p[1])
    /\ p[2] = Colon
    /\ ~IsSep(p[3])

(* ------------------------------------------------------------------ *)
(* resolveWindowsPathCollapsed: one iteration of the loop             *)
(* ------------------------------------------------------------------ *)

\* MatchLess with the comparison of the lengths reversed
MatchLessShortestFirst(a, b) ==
    IF a.plen # b.plen THEN a.plen < b.plen
    ELSE IF a.score # b.score THEN a.score > b.score
    ELSE StrLess(a.name, b.name)

MatchLess(a, b) ==
    IF a.plen # b.plen THEN a.plen > b.plen
    ELSE IF a.score # b.score THEN a.score > b.score
    ELSE StrLess(a.name, b.name)

\* prefixMatches, were the entries not required to be directories
prefixMatchesOfAnyKind(dir, tl, ents) ==
    LET kept == SelectSeq(ents, LAMBDA n :
                    /\ Len(n) <= Len(tl)
                    /\ EqualFold(Take(tl, Len(n)), n))
    IN  [i \in 1..Len(kept) |->
            [name |-> kept[i],
             plen |-> Len(kept[i]),
             score |-> caseScore(Take(tl, Len(kept[i])), kept[i])]]

\* ms: the entries of listing ents (of directory dir) that are directories
\* and whose name is a case-insensitive prefix of tl
prefixMatches(dir, tl, ents) ==
    LET kept == SelectSeq(ents, LAMBDA n :
                    /\ Len(n) <= Len(tl)
                    /\ EqualFold(Take(tl, Len(n)), n)
                    /\ ~isDirFollowSymlink(Join(dir, n)).err
                    /\ isDirFollowSymlink(Join(dir, n)).isDir)
    IN  [i \in 1..Len(kept) |->
            [name |-> kept[i],
             plen |-> Len(kept[i]),
             score |-> caseScore(Take(tl, Len(kept[i])), kept[i])]]

\* chosen := ms[0] after the sort
chosenMatch(ms) == SliceStable(ms, MatchLess)[1]

(* ------------------------------------------------------------------ *)
(* The two resolutions as functions of the argument and of the order  *)
(* in which directories list their entries                            *)
(* ------------------------------------------------------------------ *)

Failed == [ok |-> FALSE, path |-> <<>>]
Returned(p) == [ok |-> TRUE, path |-> p]

resolveWindowsPath(ord, w) ==
    LET mntRoot == pickCaseInsensitiveEntry(ord, MntDir, <<ToLower(w[1])>>)
        root == Join(MntDir, mntRoot.name)
        sgs == Segments(w)
        r == exploreCandidates(ord, root, sgs)
    IN  IF mntRoot.err THEN Failed
        ELSE IF r.err THEN Failed
        ELSE IF Len(r.results) = 0
        THEN IF Len(sgs) = 0 /\ statDir(root) = "" THEN Returned(root) ELSE Failed
        ELSE Returned(SliceStable(r.results, CandLess)[1].fullPath)

\* the loop of resolveWindowsPathCollapsed, entered with cur and tl
RECURSIVE collapsedLoop(_, _, _)
collapsedLoop(ord, cur, tl) ==
    IF Len(tl) = 0
    THEN IF statDir(cur) = "" THEN Returned(cur) ELSE Failed
    ELSE IF IsSep(tl[1]) THEN collapsedLoop(ord, cur, TrimLeftSep(tl))
    ELSE LET rd == ReadDir(ord, cur)
             ms == prefixMatches(cur, tl, rd.ents)
         IN  IF rd.err \/ Len(ms) = 0 THEN Failed
             ELSE collapsedLoop(ord, Join(cur, chosenMatch(ms).name),
                                Drop(tl, chosenMatch(ms).plen))

resolveWindowsPathCollapsed(ord, w) ==
    LET mntRoot == pickCaseInsensitiveEntry(ord, MntDir, <<ToLower(w[1])>>)
    IN  IF mntRoot.err THEN Failed
        ELSE collapsedLoop(ord, Join(MntDir, mntRoot.name), TrimLeftSep(Drop(w, 2)))

\* ResolveTarget on a drive path
ResolveTarget(ord, arg) ==
    IF isWindowsPath(arg) THEN resolveWindowsPath(ord, arg)
    ELSE resolveWindowsPathCollapsed(ord, arg)

(* ------------------------------------------------------------------ *)
(* The file systems and arguments explored                            *)
(* ------------------------------------------------------------------ *)

\* entry names under /mnt: "c", "C"
MountNames == {<<99>>, <<67>>}
\* entry names of a mount root: "a", "A"
RootNames == {<<97>>, <<65>>}
\* entry names one level further down: "a", "A", "ab", "AB"
SubNames == {<<97>>, <<65>>, <<97, 98>>, <<65, 66>>}
DirNames == RootNames \cup SubNames
\* the names an entry of directory p may bear
NamesUnder(p) ==
    IF p = MntDir THEN MountNames
    ELSE IF Parent(p) = MntDir THEN RootNames
    ELSE SubNames
NameList == <<<<99>>, <<67>>, <<97>>, <<65>>, <<97, 98>>, <<65, 66>>>>

\* os.ReadDir returns the entries sorted by file name
ByName == SliceStable(NameList, StrLess)

\* the number of slashes of a path: 1 for /mnt, 2 for a mount root
Depth(p) == Cardinality({i \in 1..Len(p) : p[i] = Slash})

\* /mnt/c
MountRootC == Join(MntDir, <<99>>)

\* the size of the largest file system explored, counted in entries besides
\* /mnt/c: an entry counts 1 when it is a plain directory and 2 otherwise;
\* a file system without /mnt/c, or with /mnt unreadable, counts 1 more
MaxCost == 4

\* entries are placed as deep as the arguments reach: two levels below a
\* mount root
HoldsEntries(f, p) == f[p] \in {"dir", "nosearch", "link"} /\ Depth(p) <= 3

Extended(f, kinds) ==
    LET slots == {pn \in (DOMAIN f) \X (MountNames \cup DirNames) :
                     /\ HoldsEntries(f, pn[1])
                     /\ pn[2] \in NamesUnder(pn[1])
                     /\ Join(pn[1], pn[2]) \notin DOMAIN f}
    IN  UNION {{f @@ (Join(pn[1], pn[2]) :> k) : k \in kinds} : pn \in slots}

RECURSIVE FileSystemsOfCost(_)
FileSystemsOfCost(b) ==
    IF b = 0 THEN {(MntDir :> "dir") @@ (MountRootC :> "dir")}
    ELSE LET below == FileSystemsOfCost(b - 1)
         IN  below
             \cup {MntDir :> "dir", MntDir :> "noread"}
             \cup UNION {Extended(f, {"dir"}) : f \in below}
             \cup (IF b = 1 THEN {}
                   ELSE UNION {Extended(f, Kinds \ {"dir"}) :
                                  f \in FileSystemsOfCost(b - 2)})

FileSystems == FileSystemsOfCost(MaxCost)

\* what a segment is written as: "a", "A", "ab", "aB", "AB", ".", ".."
NameTokens == {<<97>>, <<65>>, <<97, 98>>, <<97, 66>>, <<65, 66>>}
SegTokens == NameTokens \cup {<<Dot>>, <<Dot, Dot>>}

\* the lists of at most k tokens
RECURSIVE TokenLists(_, _)
TokenLists(toks, k) ==
    IF k = 0 THEN {<<>>}
    ELSE LET shorter == TokenLists(toks, k - 1)
         IN  shorter \cup {Append(l, t) : l \in shorter, t \in toks}

\* the pieces, each preceded by sep
RECURSIVE Separated(_, _)
Separated(l, sep) ==
    IF l = <<>> THEN <<>> ELSE <<sep>> \o Head(l) \o Separated(Tail(l), sep)

RECURSIVE Concat(_)
Concat(l) == IF l = <<>> THEN <<>> ELSE Head(l) \o Concat(Tail(l))

\* "c:/x/y" for at most two segments x, y ("c:/" for none), and the same
\* written "C:\x\y" when the segments are names
SeparatedInputs ==
    {<<99, Colon>> \o (IF l = <<>> THEN <<Slash>> ELSE Separated(l, Slash))
        : l \in TokenLists(SegTokens, 2)}
    \cup
    {<<67, Colon>> \o (IF l = <<>> THEN <<Backslash>> ELSE Separated(l, Backslash))
        : l \in TokenLists(NameTokens, 2)}

\* "c:xy": one or two names run together; "C:x/y\": a separator was left
\* between the two names and after them
CollapsedInputs ==
    {<<99, Colon>> \o Concat(l) : l \in TokenLists(NameTokens, 2) \ {<<>>}}
    \cup
    {<<67, Colon>> \o Head(l) \o Separated(Tail(l), Slash) \o <<Backslash>>
        : l \in {m \in TokenLists(NameTokens, 2) : Len(m) = 2}}

WinInputs == SeparatedInputs \cup CollapsedInputs

(* ------------------------------------------------------------------ *)
(* Init and the steps of the two resolutions                          *)
(* ------------------------------------------------------------------ *)

NotScored == [input |-> <<>>, candidate |-> <<>>, called |-> FALSE, score |-> 0]

Init ==
    /\ fs \in FileSystems
    /\ win \in WinInputs
    /\ pc = "start"
    /\ segs = <<>>
    /\ curr = <<>>
    /\ tail = <<>>
    /\ cands = <<>>
    /\ result = <<>>
    /\ err = ""
    /\ calls = {}
    /\ scored = NotScored

Fail(e) ==
    /\ pc' = "failed"
    /\ err' = e
    /\ result' = <<>>

Return(path) ==
    /\ pc' = "done"
    /\ err' = ""
    /\ result' = path

\* resolveWindowsPath up to the call of exploreCandidates (lines 145-162)
WinLocate ==
    /\ pc = "start"
    /\ isWindowsPath(win)
    /\ LET drive == <<ToLower(win[1])>>
           mntRoot == pickCaseInsensitiveEntry(ByName, MntDir, drive)
       IN  /\ segs' = Segments(win)
           /\ calls' = calls \cup {"resolveWindowsPath", "pickCaseInsensitiveEntry"}
           /\ IF mntRoot.err
              THEN Fail("cannot locate drive mapping") /\ UNCHANGED curr
              ELSE /\ curr' = Join(MntDir, mntRoot.name)
                   /\ pc' = "explore"
                   /\ UNCHANGED <<result, err>>
    /\ UNCHANGED <<fs, win, tail, cands, scored>>

\* cands, err := exploreCandidates(root, segs); if err != nil { return }
WinExplore ==
    /\ pc = "explore"
    /\ LET r == exploreCandidates(ByName, curr, segs)
       IN  /\ calls' = calls \cup {"exploreCandidates"}
           /\ cands' = r.results
           /\ IF r.err
              THEN Fail("exploreCandidates")
              ELSE pc' = "select" /\ UNCHANGED <<result, err>>
    /\ UNCHANGED <<fs, win, segs, curr, tail, scored>>

\* the rest of resolveWindowsPath (lines 166-180)
WinSelect ==
    /\ pc = "select"
    /\ IF Len(cands) = 0
       THEN IF Len(segs) = 0
            THEN IF statDir(curr) # "" THEN Fail(statDir(curr)) ELSE Return(curr)
            ELSE Fail("path does not exist")
       ELSE Return(SliceStable(cands, CandLess)[1].fullPath)
    /\ UNCHANGED <<fs, win, segs, curr, tail, cands, calls, scored>>

\* resolveWindowsPathCollapsed up to its loop (lines 185-194)
ColLocate ==
    /\ pc = "start"
    /\ ~isWindowsPath(win)
    /\ looksLikeWindowsDriveNoSlash(win)
    /\ LET drive == <<ToLower(win[1])>>
           mntRoot == pickCaseInsensitiveEntry(ByName, MntDir, drive)
       IN  /\ calls' = calls \cup {"resolveWindowsPathCollapsed",
                                   "pickCaseInsensitiveEntry"}
           /\ IF mntRoot.err
              THEN Fail("cannot locate drive mapping") /\ UNCHANGED <<curr, tail>>
              ELSE /\ curr' = Join(MntDir, mntRoot.name)
                   /\ tail' = TrimLeftSep(Drop(win, 2))
                   /\ pc' = "loop"
                   /\ UNCHANGED <<result, err>>
    /\ UNCHANGED <<fs, win, segs, cands, scored>>

\* the loop with nothing left of the tail (lines 196-201)
ColFinish ==
    /\ pc = "loop"
    /\ Len(tail) = 0
    /\ IF statDir(curr) # "" THEN Fail(statDir(curr)) ELSE Return(curr)
    /\ UNCHANGED <<fs, win, segs, curr, tail, cands, calls, scored>>

\* the loop with a separator at the head of the tail (line 203)
ColSkipSeparators ==
    /\ pc = "loop"
    /\ Len(tail) > 0
    /\ IsSep(tail[1])
    /\ tail' = TrimLeftSep(tail)
    /\ UNCHANGED <<fs, win, pc, segs, curr, cands, result, err, calls, scored>>

\* the loop matching one directory name (lines 205-233)
ColStep ==
    /\ pc = "loop"
    /\ Len(tail) > 0
    /\ ~IsSep(tail[1])
    /\ LET rd == ReadDir(ByName, curr)
           ms == prefixMatches(curr, tail, rd.ents)
       IN  IF rd.err THEN Fail("cannot read directory") /\ UNCHANGED <<curr, tail>>
           ELSE IF Len(ms) = 0 THEN Fail("cannot segment") /\ UNCHANGED <<curr, tail>>
           ELSE /\ curr' = Join(curr, chosenMatch(ms).name)
                /\ tail' = Drop(tail, chosenMatch(ms).plen)
                /\ UNCHANGED <<pc, result, err>>
    /\ UNCHANGED <<fs, win, segs, cands, calls, scored>>

Next ==
    \/ WinLocate
    \/ WinExplore
    \/ WinSelect
    \/ ColLocate
    \/ ColFinish
    \/ ColSkipSeparators
    \/ ColStep

Spec == Init /\ [][Next]_vars

\* resolveWindowsPath alone: the arguments ResolveTarget hands to it
WinInit == Init /\ isWindowsPath(win)

WinNext ==
    \/ WinLocate
    \/ WinExplore
    \/ WinSelect

WinSpec == WinInit /\ [][WinNext]_vars

\* resolveWindowsPathCollapsed alone: the arguments ResolveTarget hands to it
ColInit == Init /\ ~isWindowsPath(win) /\ looksLikeWindowsDriveNoSlash(win)

ColNext ==
    \/ ColLocate
    \/ ColFinish
    \/ ColSkipSeparators
    \/ ColStep

ColSpec == ColInit /\ [][ColNext]_vars

\* both resolutions on the file systems one unit of cost smaller, on which
\* each outcome is compared with that of every listing order
OrderFileSystems == FileSystemsOfCost(MaxCost - 1)

OrderInit ==
    /\ fs \in OrderFileSystems
    /\ win \in WinInputs
    /\ pc = "start"
    /\ segs = <<>>
    /\ curr = <<>>
    /\ tail = <<>>
    /\ cands = <<>>
    /\ result = <<>>
    /\ err = ""
    /\ calls = {}
    /\ scored = NotScored

OrderSpec == OrderInit /\ [][Next]_vars

(* ------------------------------------------------------------------ *)
(* caseScore on its own, for any two strings                          *)
(* ------------------------------------------------------------------ *)

\* the longest string caseScore is called with, "abcdef" apart
MaxStr == 2

\* the strings over a, A, b, B of at most k bytes
RECURSIVE Strings(_)
Strings(k) ==
    IF k = 0 THEN {<<>>}
    ELSE Strings(k - 1)
         \cup {Append(x, c) : x \in Strings(k - 1), c \in {97, 65, 98, 66}}

\* "abcdef"
Abcdef == <<97, 98, 99, 100, 101, 102>>

ScoreInit ==
    /\ fs = (MntDir :> "dir")
    /\ win = <<>>
    /\ pc = "score"
    /\ segs = <<>>
    /\ curr = <<>>
    /\ tail = <<>>
    /\ cands = <<>>
    /\ result = <<>>
    /\ err = ""
    /\ calls = {}
    /\ \E i \in Strings(MaxStr), c \in Strings(MaxStr) \cup {Abcdef} :
           scored = [input |-> i, candidate |-> c, called |-> FALSE, score |-> 0]

CallCaseScore ==
    /\ pc = "score"
    /\ ~scored.called
    /\ scored' = [scored EXCEPT !.called = TRUE,
                                !.score = caseScore(scored.input, scored.candidate)]
    /\ calls' = calls \cup {"caseScore"}
    /\ UNCHANGED <<fs, win, pc, segs, curr, tail, cands, result, err>>

ScoreNext == CallCaseScore

ScoreSpec == ScoreInit /\ [][ScoreNext]_vars

(* ================================================================== *)
(* Properties                                                         *)
(* ================================================================== *)

\* the same number of matching positions, counted from the front of both
\* strings until one of them ends
RECURSIVE MatchCount(_, _)
MatchCount(a, b) ==
    IF a = <<>> \/ b = <<>> THEN 0
    ELSE (IF Head(a) = Head(b) THEN 1 ELSE 0) + MatchCount(Tail(a), Tail(b))

\* s sorts before t byte by byte: they differ first at k, where s ends or
\* holds the smaller byte
LexLess(s, t) ==
    \E k \in 1..Len(t) :
        /\ \A i \in 1..(k - 1) : i <= Len(s) /\ s[i] = t[i]
        /\ k - 1 <= Len(s)
        /\ (k > Len(s) \/ s[k] < t[k])

\* the entry at full is a directory, or a symbolic link that resolves to one
IsDirEntry(full) ==
    /\ full \in DOMAIN fs
    /\ \/ fs[full] \in {"dir", "noread", "nosearch"}
       \/ fs[full] = "link" /\ Traversable(full)

\* the path names an existing directory that path resolution reaches
IsReachableDir(p) ==
    /\ p \in DOMAIN fs
    /\ fs[p] \in {"dir", "noread", "nosearch", "link"}
    /\ Traversable(p)

\* the directory can be listed
IsListable(p) == IsReachableDir(p) /\ fs[p] # "noread"

\* the run is one of resolveWindowsPath / of resolveWindowsPathCollapsed
InWin == "resolveWindowsPath" \in calls
InCollapsed == "resolveWindowsPathCollapsed" \in calls

\* the positions of the candidate list that are best: no candidate has a
\* higher score, none of the same score a smaller path
BestCands ==
    {i \in 1..Len(cands) :
        \A j \in 1..Len(cands) :
            /\ cands[j].score <= cands[i].score
            /\ cands[j].score = cands[i].score
                  => ~LexLess(cands[j].fullPath, cands[i].fullPath)}

\* C1: whenever resolveWindowsPath returns a path out of a non-empty
\* candidate list, the path is that of a candidate of the highest score and,
\* among those of that score, the smallest in byte-wise order.
C1_ReturnsBestCandidate ==
    (pc = "done" /\ InWin /\ Len(cands) > 0)
        => \E i \in BestCands : result = cands[i].fullPath

\* C1 happens: two candidates tie on the highest score, and the one returned
\* holds an upper-case letter where the other first differs from it, with
\* the same letter in lower case
C1_Witness ==
    /\ pc = "done" /\ InWin
    /\ \E i, j \in 1..Len(cands) :
          /\ cands[i].score = cands[j].score
          /\ \A k \in 1..Len(cands) : cands[k].score <= cands[i].score
          /\ result = cands[i].fullPath
          /\ \E n \in 1..Len(result) :
                /\ Take(cands[j].fullPath, n - 1) = Take(result, n - 1)
                /\ result[n] \in 65..90
                /\ cands[j].fullPath[n] = result[n] + 32

\* the prefixes of path p that end before a slash, from the mount root on:
\* the directories passed on the way to p
PassedDirs(p) ==
    {Take(p, k - 1) : k \in {i \in 1..Len(p) : p[i] = Slash /\ i > Len(MntDir) + 1}}

\* C2: a path returned without error exists and is a directory (symbolic
\* links followed), and so is every entry passed from the mount root to it.
C2_ResultIsDirectory ==
    pc = "done"
        => /\ ~Stat(result).err
           /\ Stat(result).isDir
           /\ \A d \in PassedDirs(result) : IsReachableDir(d)
           /\ Len(result) > Len(MntDir) + 1
           /\ Take(result, Len(MntDir) + 1) = MntDir \o <<Slash>>

\* C2 happens: a path is returned past a sibling of the same name, up to
\* case, that is not a directory
C2_Witness ==
    /\ pc = "done"
    /\ InCollapsed
    /\ \E p \in DOMAIN fs :
          /\ fs[p] \in {"file", "broken"}
          /\ EqualFold(p, result)
          /\ p # MountRootC

C2_WitnessWin ==
    /\ pc = "done"
    /\ InWin
    /\ \E p \in DOMAIN fs :
          /\ fs[p] \in {"file", "broken"}
          /\ EqualFold(p, result)
          /\ p # MountRootC

\* dir followed down through the entry names of ch
RECURSIVE PathOf(_, _)
PathOf(dir, ch) ==
    IF ch = <<>> THEN dir ELSE PathOf(Join(dir, Head(ch)), Tail(ch))

\* the chains of entries below root that answer the segments sgs: the i-th
\* entry lies in the directory the entries before it lead to, which can be
\* listed; its name equals the i-th segment up to case; and it resolves to
\* a directory
Chains(root, sgs) ==
    {ch \in [1..Len(sgs) -> DirNames] :
        \A i \in 1..Len(sgs) :
            /\ IsListable(PathOf(root, Take(ch, i - 1)))
            /\ EqualFold(ch[i], sgs[i])
            /\ IsReachableDir(PathOf(root, Take(ch, i)))}

\* the sum of caseScore over the segments and the entries of a chain
RECURSIVE ChainScore(_, _)
ChainScore(sgs, ch) ==
    IF sgs = <<>> THEN 0
    ELSE caseScore(Head(sgs), Head(ch)) + ChainScore(Tail(sgs), Tail(ch))

ChainCandidate(root, sgs, ch) ==
    [fullPath |-> PathOf(root, ch), score |-> ChainScore(sgs, ch)]

Explored == InWin /\ "exploreCandidates" \in calls

\* C3: for a non-empty segment list exploreCandidates returns exactly one
\* candidate for each chain of entries answering the segments, nothing
\* else, each with the sum of the per-segment scores; and when there is one
\* chain only, resolveWindowsPath returns its path.
C3_CandidatesAreTheChains ==
    (Explored /\ Len(segs) > 0)
        => LET chains == Chains(curr, segs)
           IN  /\ Len(cands) = Cardinality(chains)
               /\ {cands[i] : i \in 1..Len(cands)}
                     = {ChainCandidate(curr, segs, ch) : ch \in chains}
               /\ (pc \in {"done", "failed"} /\ Cardinality(chains) = 1)
                     => /\ pc = "done"
                        /\ \E ch \in chains :
                              /\ result = PathOf(curr, ch)
                              /\ cands[1].score = ChainScore(segs, ch)

\* C3 happens: two segments are answered by one chain only, although the
\* first segment matches two entries, and the chain's path is returned
C3_Witness ==
    /\ pc = "done" /\ Explored
    /\ Len(segs) = 2
    /\ Cardinality(Chains(curr, segs)) = 1
    /\ Cardinality(Chains(curr, Take(segs, 1))) = 2

\* C4: exploreCandidates returns no error, whatever listing or stat fails
\* on a branch; and when some chain of entries answers the segments through
\* directories that can be listed, resolveWindowsPath returns the path of
\* one, whichever other candidate directories cannot be listed.
C4_UnreadableBranchIsPruned ==
    /\ err # "exploreCandidates"
    /\ (Explored /\ pc \in {"done", "failed"} /\ Len(segs) > 0
           /\ Chains(curr, segs) # {})
          => /\ pc = "done"
             /\ \E ch \in Chains(curr, segs) : result = PathOf(curr, ch)

\* C4 happens: the first segment matches a directory that cannot be listed
\* and a sibling that differs from it in case only, and the path returned
\* goes through the sibling
C4_Witness ==
    /\ pc = "done" /\ Explored
    /\ Len(segs) = 2
    /\ \E n \in DirNames :
          /\ EqualFold(n, segs[1])
          /\ Join(curr, n) \in DOMAIN fs
          /\ fs[Join(curr, n)] = "noread"
          /\ Take(result, Len(Join(curr, n))) # Join(curr, n)

\* C6 as stated: on an argument whose segment list is empty,
\* resolveWindowsPath returns the mount root and exploreCandidates is never
\* called.
C6_Original ==
    (InWin /\ pc # "start" /\ Len(Segments(win)) = 0)
        => /\ "exploreCandidates" \notin calls
           /\ pc = "done" => result = curr

\* C6 as amended: on an argument whose segment list is empty ("C:\", "C:/",
\* or all segments cancel out) resolveWindowsPath calls exploreCandidates,
\* which returns the mount root as its only candidate, with score 0, when
\* the root is a directory and no candidate otherwise; the path returned is
\* the mount root, and resolution fails only when the root is no directory.
C6_EmptySegmentsYieldRoot ==
    (InWin /\ pc \in {"select", "done", "failed"} /\ Len(Segments(win)) = 0
           /\ err # "cannot locate drive mapping")
        => /\ segs = <<>>
           /\ "exploreCandidates" \in calls
           /\ cands = IF ~Stat(curr).err /\ Stat(curr).isDir
                      THEN <<[fullPath |-> curr, score |-> 0]>>
                      ELSE <<>>
           /\ pc = "done" => result = curr /\ Len(cands) = 1
           /\ pc = "failed" => cands = <<>>

\* C6 happens: the segments of the argument cancel out and the mount root
\* is returned
C6_Witness ==
    /\ pc = "done" /\ InWin
    /\ Len(win) > 3
    /\ Len(Segments(win)) = 0
    /\ result = curr

\* the sum of the lengths of the segments
RECURSIVE TotalLen(_)
TotalLen(sgs) == IF sgs = <<>> THEN 0 ELSE Len(Head(sgs)) + TotalLen(Tail(sgs))

\* the pieces of the argument between its separators, as written
WrittenSegments(w) ==
    SelectSeq(SplitSlash(ReplaceBackslash(Drop(w, 2)), <<>>), LAMBDA x : x # <<>>)

\* the argument names, letter for letter, a chain of existing directories
\* /mnt/<d>/s_1/.../s_N
WrittenChainExists ==
    /\ \A x \in {WrittenSegments(win)[i] : i \in 1..Len(WrittenSegments(win))} :
          x \in DirNames
    /\ \A k \in 0..Len(WrittenSegments(win)) :
          LET p == PathOf(Join(MntDir, <<win[1]>>), Take(WrittenSegments(win), k))
          IN  p \in DOMAIN fs /\ fs[p] \in {"dir", "noread", "nosearch", "link"}

WrittenPath == PathOf(Join(MntDir, <<win[1]>>), WrittenSegments(win))

\* the written path is returned, its candidate bearing the full score
ReturnsWrittenPath ==
    /\ pc = "done"
    /\ result = WrittenPath
    /\ \E i \in 1..Len(cands) :
          cands[i] = [fullPath |-> WrittenPath,
                      score |-> TotalLen(WrittenSegments(win))]

\* C7 as stated: resolving "<d>:/s_1/.../s_N", written with the entry names
\* of an existing directory chain /mnt/<d>/s_1/.../s_N, returns that path
\* with a score equal to the number of characters of the segments.
C7_Original ==
    (InWin /\ pc \in {"done", "failed"} /\ Len(WrittenSegments(win)) > 0
           /\ WrittenChainExists)
        => ReturnsWrittenPath

\* every directory of the written chain above the last can be listed, /mnt
\* included, the last can be reached, and /mnt/<d> is the entry chosen for
\* the drive
WrittenChainCanBeWalked ==
    /\ IsListable(MntDir)
    /\ curr = Join(MntDir, <<win[1]>>)
    /\ \A k \in 0..(Len(WrittenSegments(win)) - 1) :
          IsListable(PathOf(curr, Take(WrittenSegments(win), k)))
    /\ IsReachableDir(WrittenPath)

\* C7 as amended: resolving "<d>:/s_1/.../s_N", written with the entry names
\* of an existing directory chain /mnt/<d>/s_1/.../s_N, returns exactly that
\* path, with a score equal to the number of characters of the segments,
\* whatever siblings differ from the entries in case only, provided /mnt/<d>
\* is the entry chosen for the drive (it is when <d> is in lower case), every
\* directory from /mnt down to s_(N-1) can be listed, and the path can be
\* reached.
C7_RoundTrip ==
    /\ (InWin /\ pc \in {"done", "failed"} /\ WrittenChainExists
           /\ WrittenChainCanBeWalked)
          => ReturnsWrittenPath
    /\ (InWin /\ pc \in {"done", "failed"} /\ WrittenChainExists
           /\ IsListable(MntDir) /\ win[1] \in 97..122)
          => curr = Join(MntDir, <<win[1]>>)

\* C7 happens: a two-segment path is returned as written although, at both
\* levels, a sibling differs from the entry in case only
C7_Witness ==
    /\ pc = "done" /\ InWin
    /\ Len(WrittenSegments(win)) = 2
    /\ result = WrittenPath
    /\ \E n \in DirNames :
          /\ n # WrittenSegments(win)[1]
          /\ EqualFold(n, WrittenSegments(win)[1])
          /\ IsReachableDir(Join(curr, n))
    /\ \E n \in DirNames :
          /\ n # WrittenSegments(win)[2]
          /\ EqualFold(n, WrittenSegments(win)[2])
          /\ IsReachableDir(Join(Parent(result), n))

\* the entries of curr that are directories and whose name is, up to case,
\* a prefix of the tail
PrefixDirs ==
    {n \in DirNames :
        /\ Len(n) <= Len(tail)
        /\ EqualFold(Take(tail, Len(n)), n)
        /\ IsDirEntry(Join(curr, n))}

\* n is preferred to m: the longer name, then the higher score against the
\* tail, then the smaller name
Preferred(n, m) ==
    \/ Len(n) > Len(m)
    \/ /\ Len(n) = Len(m)
       /\ \/ MatchCount(tail, n) > MatchCount(tail, m)
          \/ /\ MatchCount(tail, n) = MatchCount(tail, m)
             /\ LexLess(n, m)

AtNameStep == pc = "loop" /\ Len(tail) > 0 /\ ~IsSep(tail[1])

\* C5: an iteration of the loop of resolveWindowsPathCollapsed that descends
\* (the tail not empty, no separator at its head) descends into the entry
\* preferred to every other directory entry whose name is a prefix of the
\* tail up to case, and removes from the tail exactly the length of its name.
C5_DescendsIntoBestPrefix ==
    [][(AtNameStep /\ pc' = "loop")
          => \E n \in PrefixDirs :
                /\ \A m \in PrefixDirs \ {n} : Preferred(n, m)
                /\ curr' = Join(curr, n)
                /\ tail = Take(tail, Len(n)) \o tail'
                /\ Len(tail') = Len(tail) - Len(n)]_vars

\* C5 happens: the loop has descended into an entry with a sibling of a
\* shorter name that is a prefix of the same tail, and goes on
C5_Witness ==
    /\ pc = "loop" /\ InCollapsed
    /\ Depth(curr) = 4
    /\ \E m \in DirNames :
          /\ IsDirEntry(Join(Parent(curr), m))
          /\ Len(Join(Parent(curr), m)) < Len(curr)
          /\ EqualFold(Join(Parent(curr), m), Take(curr, Len(Join(Parent(curr), m))))

\* C8: resolveWindowsPathCollapsed does not go back on a choice: when no
\* directory entry of the directory reached is a prefix of the tail up to
\* case, it fails at once with "cannot segment" and returns no path; when
\* the directory cannot be listed it fails as well.
C8_NoBacktracking ==
    [][AtNameStep
          => IF ~IsListable(curr)
             THEN pc' = "failed" /\ err' = "cannot read directory" /\ result' = <<>>
             ELSE (PrefixDirs = {})
                     => (pc' = "failed" /\ err' = "cannot segment"
                           /\ result' = <<>>)]_vars

\* the tail of the argument can be cut into names of directories that lead
\* from the mount root to an existing directory
OtherSegmentationExists ==
    \E n1 \in RootNames, n2 \in SubNames :
        /\ EqualFold(n1 \o n2, TrimLeftSep(Drop(win, 2)))
        /\ IsListable(Take(curr, Len(MountRootC)))
        /\ IsListable(Join(Take(curr, Len(MountRootC)), n1))
        /\ IsReachableDir(PathOf(Take(curr, Len(MountRootC)), <<n1, n2>>))

\* C8 happens: the resolution has failed with "cannot segment" one level
\* down although another choice at the first level leads to a directory
C8_Witness ==
    /\ pc = "failed" /\ InCollapsed
    /\ err = "cannot segment"
    /\ Depth(curr) = 3
    /\ OtherSegmentationExists

\* some directory lists an entry of name n together with another entry
ListedWithAnother(n) ==
    \E p \in DOMAIN fs :
        /\ Join(p, n) \in DOMAIN fs
        /\ \E m \in (MountNames \cup DirNames) \ {n} : Join(p, m) \in DOMAIN fs

\* the orders in which the names of sequence q can be listed
OrdersOf(q) ==
    {[i \in 1..Len(q) |-> q[f[i]]] : f \in Permutations(1..Len(q))}

\* every order in which the directories can list their entries: the entries
\* of /mnt in any order, and those of the directories below it in any order.
\* A name that is listed alone wherever it is listed makes no listing differ
\* by its place, and is put last.
ListingOrders ==
    LET shared == SelectSeq(ByName, ListedWithAnother)
        alone == SelectSeq(ByName, LAMBDA n : ~ListedWithAnother(n))
    IN  {m \o d \o alone :
            m \in OrdersOf(SelectSeq(shared, LAMBDA n : n \in MountNames)),
            d \in OrdersOf(SelectSeq(shared, LAMBDA n : n \in DirNames))}

\* C10: the outcome of a resolution, the path returned or the failure, is
\* the same for every order in which the directories list their entries.
C10_OrderIndependent ==
    pc \in {"done", "failed"}
        => \A o \in ListingOrders :
              ResolveTarget(o, win) = [ok |-> pc = "done", path |-> result]

\* C10 happens: a path is returned out of two candidates, which the
\* listings may present in either order
C10_Witness ==
    /\ pc = "done" /\ InWin
    /\ Len(cands) >= 2
    /\ Cardinality(ListingOrders) >= 2

\* C9 as stated: caseScore("AB", "ab") and caseScore("AB", "abcdef") are
\* both 2.
C9_Original ==
    (scored.called /\ scored.input = <<65, 66>>
                   /\ scored.candidate \in {<<97, 98>>, Abcdef})
        => scored.score = 2

\* C9 as amended: caseScore counts the positions below the length of the
\* shorter string that hold the identical byte and ignores what follows, so
\* "AB" scores the same against "ab" and against "abcdef": 0 for both, no
\* position holding the identical byte.
C9_IgnoresTrailingLength ==
    scored.called
        => /\ scored.score = MatchCount(scored.input, scored.candidate)
           /\ scored.score <= Len(scored.input)
           /\ scored.score <= Len(scored.candidate)
           /\ (scored.input = <<65, 66>>
                  /\ scored.candidate \in {<<97, 98>>, Abcdef})
                 => scored.score = 0

\* C9 happens: "AB" has been scored against "abcdef"
C9_Witness ==
    scored.called /\ scored.input = <<65, 66>> /\ scored.candidate = Abcdef

====
